---- MODULE Spec2Model ----
(***************************************************************************)
(* go-datapipe: the batched bulk-loading subsystem.                        *)
(*                                                                         *)
(*   bulk.Bulk    generic batch inserter (src/bulk/bulk.go)                 *)
(*   bulk.CopyIn  native copy inserter   (src/go.mod, lines 23-151)         *)
(*   copyTable / copyBulkRows  the copy orchestrator (src/datapipe.go)      *)
(*                                                                         *)
(* The destination connection is modelled by its transactions (txState),   *)
(* its prepared statements (stmts) and the ordered record of every call    *)
(* made on it (dbLog).  calls is the ordered record of the calls made on   *)
(* the Insert interface with what each returned.                           *)
(***************************************************************************)
EXTENDS Integers, Sequences, FiniteSets, TLC

\* ------------------------------------------------------------------ bounds
MaxB == 3        \* largest cfg.MaxRowBufSz explored
MaxT == 3        \* largest cfg.MaxRowTxCommit explored
MaxCols == 2     \* largest number of cursor columns explored
MaxRows == 4     \* longest cursor explored
MaxFaults == 2   \* most injected failures (scan, begin, exec, ...) in one run
MaxCalls == 4    \* most Insert calls in a run of direct calls (SpecAny)
MaxNameLen == 3  \* longest schema or table name explored (SpecFq)

VARIABLES
  cfg,            \* Config: DstDbDriver, MaxRowBufSz, MaxRowTxCommit
  colCount,       \* len(columns) of the source cursor
  catalog,        \* information_schema.columns of the destination: column -> data_type
  cursorRows,     \* the rows the source cursor holds
  cursorPos,      \* rows delivered by rows.Next() so far
  rowsErr,        \* rows.Err() # nil
  pc,             \* position of copyTable / copyBulkRows
  result,         \* what copyTable returned
  tx,             \* r.tx: 0 is nil, otherwise a transaction handle
  stmt,           \* r.stmt: 0 is nil, otherwise a prepared statement handle
  buf,            \* Bulk.buf
  bufSz,          \* Bulk.bufSz
  bufPos,         \* Bulk.bufPos
  rowPos,         \* Bulk.rowPos
  totalRowCount,  \* r.totalRowCount
  values,         \* r.values
  valueTypes,     \* CopyIn.valueTypes
  txState,        \* destination: state of every transaction begun
  stmts,          \* destination: every statement prepared
  dbLog,          \* destination: every call made on the connection, in order
  calls,          \* every Insert call made, with its result, in order
  panicked,       \* the process died of a runtime panic
  faults          \* failures injected so far

cfgVars    == <<cfg, colCount, catalog, cursorRows>>
cursorVars == <<cursorPos, rowsErr>>
insVars    == <<tx, stmt, buf, bufSz, bufPos, rowPos, totalRowCount, values, valueTypes>>
dbVars     == <<txState, stmts, dbLog>>
vars == <<cfg, colCount, catalog, cursorRows, cursorPos, rowsErr, pc, result,
          tx, stmt, buf, bufSz, bufPos, rowPos, totalRowCount, values, valueTypes,
          txState, stmts, dbLog, calls, panicked, faults>>

\* ------------------------------------------------------------------ values
\* A Go interface{} value: its dynamic type and its content as numbers
\* (bytes and strings: the byte codes; float64: <<mantissa, decimals>>).
Nil == [t |-> "nil", s |-> <<>>]
Int64(n) == [t |-> "int64", s |-> <<n>>]
Bytes(b) == [t |-> "[]byte", s |-> b]
String(b) == [t |-> "string", s |-> b]
Float64(m, d) == [t |-> "float64", s |-> <<m, d>>]

NoErr == "nil"

Last(q) == q[Len(q)]

\* ------------------------------------------------------- the cursor's rows
\* Values a source driver hands over: NULL, numeric text, other text, a number.
SampleValues ==
  << Nil, Bytes(<<52, 50, 46, 53>>), Bytes(<<97, 98, 99>>), Int64(7), Bytes(<<55>>) >>

\* Generic inserter runs: every value of the cursor is distinct.
DistinctRows(n, c) == [k \in 1..n |-> [j \in 1..c |-> Int64((k - 1) * c + j)]]

\* Native copy runs: the rows walk through SampleValues from an offset.
SampleRows(n, c, off) ==
  [k \in 1..n |-> [j \in 1..c |->
      SampleValues[((off + k + j) % Len(SampleValues)) + 1]]]

DataTypes == {"numeric", "text"}

\* ------------------------------------------------- the destination connection
\* The working state of one Insert call: the receiver's fields, the
\* destination, the error being returned and the failures injected so far.
Cur ==
  [tx |-> tx, stmt |-> stmt, buf |-> buf, bufPos |-> bufPos, rowPos |-> rowPos,
   totalRowCount |-> totalRowCount, values |-> values,
   txState |-> txState, stmts |-> stmts, dbLog |-> dbLog,
   err |-> NoErr, n |-> 0, panic |-> FALSE, used |-> {}]

\* The transaction open on the connection, 0 when there is none.
ConnTx(ts) ==
  IF \E t \in 1..Len(ts) : ts[t] = "open"
  THEN CHOOSE t \in 1..Len(ts) : ts[t] = "open"
  ELSE 0

Event(op, call, ok, t, st, groups, args) ==
  [op |-> op, call |-> call, ok |-> ok, tx |-> t, stmt |-> st,
   groups |-> groups, args |-> args]

\* conn.BeginTx
BeginTx(s, call, fail) ==
  IF fail
  THEN [s EXCEPT !.err = "begin", !.used = @ \cup {"begin"},
                 !.dbLog = Append(@, Event("Begin", call, FALSE, 0, 0, 0, <<>>))]
  ELSE [s EXCEPT !.tx = Len(s.txState) + 1,
                 !.txState = Append(@, "open"),
                 !.dbLog = Append(@, Event("Begin", call, TRUE, Len(s.txState) + 1, 0, 0, <<>>))]

\* A runtime panic ends the call and the process.
Panic(s) == [s EXCEPT !.err = "panic", !.panic = TRUE]

\* tx.Commit: a nil *sql.Tx panics; sql.ErrTxDone on a transaction already
\* committed or failed.
Commit(s, call, fail) ==
  IF s.tx = 0
  THEN Panic([s EXCEPT !.dbLog =
                Append(@, Event("Commit", call, FALSE, 0, 0, 0, <<>>))])
  ELSE IF s.txState[s.tx] # "open"
  THEN [s EXCEPT !.err = "ErrTxDone",
                 !.dbLog = Append(@, Event("Commit", call, FALSE, s.tx, 0, 0, <<>>))]
  ELSE IF fail
  THEN [s EXCEPT !.err = "commit", !.used = @ \cup {"commit"},
                 !.txState[s.tx] = "failed",
                 !.dbLog = Append(@, Event("Commit", call, FALSE, s.tx, 0, 0, <<>>))]
  ELSE [s EXCEPT !.txState[s.tx] = "committed",
                 !.dbLog = Append(@, Event("Commit", call, TRUE, s.tx, 0, 0, <<>>))]

\* ------------------------------------------------- the SQL statement builder
\* Text is a sequence of byte codes: 96 is the backtick, 46 the point.
Backtick == 96
Point == 46

\* strings.HasPrefix(x, "`") && strings.HasSuffix(x, "`")
Quoted(x) == Len(x) > 0 /\ x[1] = Backtick /\ x[Len(x)] = Backtick

\* fmt.Sprintf("`%s`", x)
Wrap(x) == <<Backtick>> \o x \o <<Backtick>>

\* Mutant of FqSchemaTable: the names are wrapped without looking for quotes.
FqSchemaTableAlwaysWraps(schema, table) ==
  IF schema = <<>> THEN Wrap(table)
  ELSE Wrap(schema) \o <<Point>> \o Wrap(table)

\* func (r *Bulk) FqSchemaTable
FqSchemaTable(schema, table) ==
  LET schemaQuoted == Quoted(schema)
      tableQuoted == Quoted(table)
  IN  IF schema = <<>>
      THEN IF ~tableQuoted THEN Wrap(table) ELSE table
      ELSE (IF ~schemaQuoted THEN Wrap(schema) ELSE schema)
           \o <<Point>>
           \o (IF ~tableQuoted THEN Wrap(table) ELSE table)

\* func (r *Bulk) prepare: the statement text, as its table name, its column
\* count and one entry per "(?,...,?)" group holding its number of "?".
BulkPrepare(rowCount) ==
  [table |-> FqSchemaTable(cfg.DstSchema, cfg.DstTable),
   columns |-> colCount,
   groups |-> [i \in 1..rowCount |-> colCount]]

\* pq.CopyInSchema(schema, tableName, columns...): no placeholders.
CopyInSchema ==
  [table |-> <<>>, columns |-> colCount, groups |-> <<>>]

RECURSIVE Placeholders(_)
\* The number of "?" of a statement text.
Placeholders(groups) ==
  IF groups = <<>> THEN 0
  ELSE Placeholders(SubSeq(groups, 1, Len(groups) - 1)) + groups[Len(groups)]

\* conn.PrepareContext / tx.Prepare: kind is "full", "rem" or "copy".
Prepare(s, kind, groups, call, fail) ==
  IF fail
  THEN [s EXCEPT !.err = "prepare", !.used = @ \cup {"prepare"},
                 !.dbLog = Append(@, Event("Prepare", call, FALSE, 0, 0, groups, <<>>))]
  ELSE [s EXCEPT !.stmts = Append(@, [kind |-> kind, groups |-> groups, open |-> TRUE,
                                      sql |-> IF kind = "copy" THEN CopyInSchema
                                              ELSE BulkPrepare(groups)]),
                 !.n = Len(s.stmts) + 1,
                 !.dbLog = Append(@, Event("Prepare", call, TRUE, 0, Len(s.stmts) + 1, groups, <<>>))]

\* stmt.Exec: a closed statement and a wrong number of arguments are errors
\* of database/sql itself; the destination may fail any other execution.
ExecRefused(s, st, args) ==
  \/ ~s.stmts[st].open
  \/ /\ s.stmts[st].kind # "copy"
     /\ Len(args) # Placeholders(s.stmts[st].sql.groups)

Exec(s, st, args, call, fail) ==
  IF ExecRefused(s, st, args)
  THEN [s EXCEPT !.err = "exec",
                 !.dbLog = Append(@, Event("Exec", call, FALSE, ConnTx(s.txState), st,
                                           s.stmts[st].groups, args))]
  ELSE IF fail
  THEN [s EXCEPT !.err = "exec", !.used = @ \cup {"exec"},
                 !.dbLog = Append(@, Event("Exec", call, FALSE, ConnTx(s.txState), st,
                                           s.stmts[st].groups, args))]
  ELSE [s EXCEPT !.dbLog = Append(@, Event("Exec", call, TRUE, ConnTx(s.txState), st,
                                           s.stmts[st].groups, args))]

\* stmt.Close
StmtClose(s, st, call, fail) ==
  IF fail
  THEN [s EXCEPT !.err = "stmtclose", !.used = @ \cup {"stmtclose"},
                 !.stmts[st].open = FALSE,
                 !.dbLog = Append(@, Event("StmtClose", call, FALSE, 0, st,
                                           s.stmts[st].groups, <<>>))]
  ELSE [s EXCEPT !.stmts[st].open = FALSE,
                 !.dbLog = Append(@, Event("StmtClose", call, TRUE, 0, st,
                                           s.stmts[st].groups, <<>>))]

\* rows.Scan(r.valuePtrs...): every destination is a *interface{}, so a
\* failing Scan (rows closed under it) assigns nothing and r.values keeps
\* the previous row.
Scan(old, row, scanOk) == IF scanOk THEN row ELSE old

\* ------------------------------------------------------ bulk.Bulk (generic)
\* Copy row values into buffer: the loop writes r.buf[r.bufPos] column by
\* column and panics (index out of range) at the first index >= len(r.buf).
CopyRoom(s) == IF bufSz - s.bufPos < 0 THEN 0 ELSE bufSz - s.bufPos

CopyIntoBuf(s, vals) ==
  LET k == IF colCount <= CopyRoom(s) THEN colCount ELSE CopyRoom(s)
  IN  [s EXCEPT !.values = vals,
                !.buf = [i \in 1..bufSz |->
                           IF i > s.bufPos /\ i <= s.bufPos + k
                           THEN vals[i - s.bufPos] ELSE s.buf[i]],
                !.bufPos = s.bufPos + k,
                !.err = IF k < colCount THEN "panic" ELSE s.err,
                !.panic = k < colCount]

\* Mutant of CommitDue: the first multiple of the threshold is passed over.
CommitDueLate(s) ==
  /\ s.tx # 0
  /\ s.totalRowCount > cfg.MaxRowTxCommit
  /\ s.totalRowCount % cfg.MaxRowTxCommit = 0

\* r.tx != nil && r.totalRowCount > 0 && r.totalRowCount%r.maxRowTxCommit == 0
CommitDue(s) ==
  /\ s.tx # 0
  /\ s.totalRowCount > 0
  /\ s.totalRowCount % cfg.MaxRowTxCommit = 0

\* Mutant of BufferFull: the buffer counts as full one row early.
BufferFullEarly(s) == s.bufPos + colCount >= bufSz

\* r.bufPos >= r.bufSz
BufferFull(s) == s.bufPos >= bufSz

\* Mutant of AppendInsert: the buffer is reset whether or not Exec failed.
AppendInsertResetsAnyway(s, call, f) ==
  IF ~(s.bufPos >= bufSz) THEN s
  ELSE LET s1 == IF s.tx = 0 THEN BeginTx(s, call, f = "begin") ELSE s
       IN  IF s1.err # NoErr THEN s1
           ELSE [Exec(s1, s1.stmt, s1.buf, call, f = "exec")
                   EXCEPT !.bufPos = 0, !.rowPos = 0]

\* Mutant of AppendInsert: only r.bufPos is reset after the execution.
AppendInsertKeepsRowPos(s, call, f) ==
  IF ~(s.bufPos >= bufSz) THEN s
  ELSE LET s1 == IF s.tx = 0 THEN BeginTx(s, call, f = "begin") ELSE s
       IN  IF s1.err # NoErr THEN s1
           ELSE LET s2 == Exec(s1, s1.stmt, s1.buf, call, f = "exec")
                IN  IF s2.err # NoErr THEN s2
                    ELSE [s2 EXCEPT !.bufPos = 0]

\* The tail of Append: insert rows if buffer is full.
AppendInsert(s, call, f) ==
  IF ~BufferFull(s) THEN s
  ELSE LET s1 == IF s.tx = 0 THEN BeginTx(s, call, f = "begin") ELSE s
       IN  IF s1.err # NoErr THEN s1
           ELSE LET s2 == Exec(s1, s1.stmt, s1.buf, call, f = "exec")
                IN  IF s2.err # NoErr THEN s2
                    ELSE [s2 EXCEPT !.bufPos = 0, !.rowPos = 0]

\* Mutant of AppendCommit: r.tx is not cleared after the commit.
AppendCommitKeepsTx(s, call, f) ==
  IF ~(s.tx # 0 /\ s.totalRowCount > 0
         /\ s.totalRowCount % cfg.MaxRowTxCommit = 0)
  THEN s
  ELSE Commit(s, call, f = "commit")

\* The commit step of Append.
AppendCommit(s, call, f) ==
  IF ~CommitDue(s) THEN s
  ELSE LET s1 == Commit(s, call, f = "commit")
       IN  IF s1.err # NoErr THEN s1 ELSE [s1 EXCEPT !.tx = 0]

\* func (r *Bulk) Append: the state it leaves and the error it returns.
BulkAppend(row, scanOk, f) ==
  LET call == Len(calls) + 1
      s0 == [Cur EXCEPT !.used = IF scanOk THEN {} ELSE {"scan"}]
      s1 == CopyIntoBuf(s0, Scan(values, row, scanOk))
  IN  IF s1.err # NoErr THEN s1
      ELSE LET s2 == [s1 EXCEPT !.rowPos = @ + 1, !.totalRowCount = @ + 1]
               s3 == AppendCommit(s2, call, f)
           IN  IF s3.err # NoErr THEN s3 ELSE AppendInsert(s3, call, f)

\* Mutant of BulkClose: Close also commits the transaction it holds.
BulkCloseCommits(f) ==
  LET call == Len(calls) + 1
      s1 == IF stmt # 0
            THEN [StmtClose(Cur, stmt, call, f = "stmtclose") EXCEPT !.err = NoErr]
            ELSE Cur
  IN  IF s1.tx # 0 THEN Commit(s1, call, f = "commit") ELSE s1

\* func (r *Bulk) Close: the error of stmt.Close() is dropped.
BulkClose(f) ==
  LET call == Len(calls) + 1
  IN  IF stmt # 0
      THEN [StmtClose(Cur, stmt, call, f = "stmtclose") EXCEPT !.err = NoErr]
      ELSE Cur

\* r.totalRowCount += r.rowPos
FlushTotal(s) == s.totalRowCount + s.rowPos

\* Mutant of FlushRemainder: the whole buffer is bound, not its first
\* r.bufPos values.
FlushRemainderWholeBuffer(s, call, f) ==
  IF ~(s.bufPos > 0) THEN s
  ELSE LET s1 == Prepare(s, "rem", s.rowPos, call, f = "prepare")
       IN  IF s1.err # NoErr THEN s1
           ELSE LET st == s1.n
                    s2 == Exec(s1, st, s.buf, call, f = "exec")
                    s3 == IF s2.err # NoErr THEN s2
                          ELSE [s2 EXCEPT !.totalRowCount = FlushTotal(s2),
                                          !.bufPos = 0, !.rowPos = 0]
                IN  [StmtClose(s3, st, call, FALSE) EXCEPT !.n = 0]

\* The remainder statement of Flush: prepared for r.rowPos rows, executed
\* with the first r.bufPos values, closed on return (defer stmt.Close()).
FlushRemainder(s, call, f) ==
  IF ~(s.bufPos > 0) THEN s
  ELSE LET args == SubSeq(s.buf, 1, s.bufPos)
           s1 == Prepare(s, "rem", s.rowPos, call, f = "prepare")
       IN  IF s1.err # NoErr THEN s1
           ELSE LET st == s1.n
                    s2 == Exec(s1, st, args, call, f = "exec")
                    s3 == IF s2.err # NoErr THEN s2
                          ELSE [s2 EXCEPT !.totalRowCount = FlushTotal(s2),
                                          !.bufPos = 0, !.rowPos = 0]
                IN  [StmtClose(s3, st, call, FALSE) EXCEPT !.n = 0]

\* Mutant of FlushCommit: the nil test of r.tx is missing.
FlushCommitUnguarded(s, call, f) == Commit(s, call, f = "commit")

\* The commit step of Flush: r.tx is not cleared.
FlushCommit(s, call, f) ==
  IF s.tx # 0 THEN Commit(s, call, f = "commit") ELSE s

\* func (r *Bulk) Flush: returns (r.totalRowCount, nil) or (0, err).
BulkFlush(f) ==
  LET call == Len(calls) + 1
      s1 == FlushRemainder(Cur, call, f)
  IN  IF s1.err # NoErr THEN s1
      ELSE LET s2 == FlushCommit(s1, call, f)
           IN  IF s2.err # NoErr THEN s2
               ELSE [s2 EXCEPT !.n = s2.totalRowCount]

\* func NewBulk: on an error of prepare it returns (nil, err).
NewBulk(f) ==
  LET sz == colCount * cfg.MaxRowBufSz
      s0 == [Cur EXCEPT !.values = [i \in 1..colCount |-> Nil],
                        !.buf = [i \in 1..sz |-> Nil],
                        !.bufPos = 0, !.rowPos = 0]
      s1 == Prepare(s0, "full", cfg.MaxRowBufSz, 0, f = "prepare")
  IN  IF s1.err # NoErr THEN [s1 EXCEPT !.values = values, !.buf = buf]
      ELSE [s1 EXCEPT !.stmt = s1.n, !.n = 0]

\* ---------------------------------------------------- bulk.CopyIn (native)
IsDigit(c) == c >= 48 /\ c <= 57

RECURSIVE DigitsValue(_)
DigitsValue(ds) ==
  IF ds = <<>> THEN 0
  ELSE 10 * DigitsValue(SubSeq(ds, 1, Len(ds) - 1)) + (ds[Len(ds)] - 48)

RECURSIVE Normal(_, _)
Normal(m, d) == IF d > 0 /\ m % 10 = 0 THEN Normal(m \div 10, d - 1) ELSE <<m, d>>

\* strconv.ParseFloat(string(s), 64) on decimal text: an optional sign,
\* digits, at most one point, at least one digit.  Anything else is a syntax
\* error, for which ParseFloat returns 0.
ParseFloat(b) ==
  LET signed == Len(b) > 0 /\ b[1] \in {43, 45}
      body == IF signed THEN SubSeq(b, 2, Len(b)) ELSE b
      dots == {i \in 1..Len(body) : body[i] = 46}
      digits == {i \in 1..Len(body) : IsDigit(body[i])}
      ok == /\ digits # {}
            /\ Cardinality(dots) <= 1
            /\ dots \cup digits = 1..Len(body)
      dot == IF dots = {} THEN Len(body) + 1 ELSE CHOOSE i \in dots : TRUE
      whole == SubSeq(body, 1, dot - 1)
      frac == SubSeq(body, dot + 1, Len(body))
      m == DigitsValue(whole \o frac)
      nd == Normal(m, Len(frac))
      sign == IF signed /\ b[1] = 45 THEN -1 ELSE 1
  IN  IF ok THEN [ok |-> TRUE, v |-> Float64(sign * nd[1], nd[2])]
      ELSE [ok |-> FALSE, v |-> Float64(0, 0)]

\* The body of Append's loop for one value: the error of ParseFloat is dropped.
Coerce(v, type) ==
  IF v = Nil THEN v
  ELSE IF v.t = "[]byte"
       THEN IF type = "numeric" THEN ParseFloat(v.s).v ELSE String(v.s)
       ELSE v

\* func (r *CopyIn) Append
CopyInAppend(row, scanOk, f) ==
  LET call == Len(calls) + 1
      scanned == Scan(values, row, scanOk)
      s0 == [Cur EXCEPT !.used = IF scanOk THEN {} ELSE {"scan"},
                        !.values = [i \in 1..Len(valueTypes) |->
                                       Coerce(scanned[i], valueTypes[i])]]
      s1 == Exec(s0, s0.stmt, s0.values, call, f = "exec")
  IN  IF s1.err # NoErr THEN s1
      ELSE [s1 EXCEPT !.totalRowCount = @ + 1]

\* Mutant of CopyInClose: the commit is made whether or not stmt.Close() failed.
CopyInCloseCommitsAnyway(f) ==
  LET call == Len(calls) + 1
      s1 == StmtClose(Cur, stmt, call, f = "stmtclose")
  IN  Commit([s1 EXCEPT !.err = NoErr], call, f = "commit")

\* func (r *CopyIn) Close: the commit is skipped when stmt.Close() fails.
CopyInClose(f) ==
  LET call == Len(calls) + 1
      s1 == StmtClose(Cur, stmt, call, f = "stmtclose")
  IN  IF s1.err # NoErr THEN s1 ELSE Commit(s1, call, f = "commit")

\* func (r *CopyIn) Flush: r.stmt.Exec() with no arguments.
CopyInFlush(f) ==
  LET call == Len(calls) + 1
      s1 == Exec(Cur, stmt, <<>>, call, f = "exec")
  IN  IF s1.err # NoErr THEN s1 ELSE [s1 EXCEPT !.n = s1.totalRowCount]

\* func (r *CopyIn) findColumnTypes: r.valueTypes[i] is the data_type of the
\* catalog row named columns[i], and stays "" when there is none.
FindColumnTypes(cat) ==
  [i \in 1..colCount |->
     IF \E p \in cat : p[1] = i THEN (CHOOSE p \in cat : p[1] = i)[2] ELSE ""]

\* func NewCopyIn: BeginTx, findColumnTypes, tx.Prepare; (nil, err) on the
\* first error, with the transaction left as it is.
NewCopyIn(f) ==
  LET s0 == [Cur EXCEPT !.values = [i \in 1..colCount |-> Nil]]
      s1 == BeginTx(s0, 0, f = "begin")
  IN  IF s1.err # NoErr THEN s1
      ELSE IF f = "query"
      THEN [s1 EXCEPT !.err = "query", !.used = @ \cup {"query"},
                      !.dbLog = Append(@, Event("Query", 0, FALSE, s1.tx, 0, 0, <<>>))]
      ELSE LET s2 == [s1 EXCEPT
                        !.dbLog = Append(@, Event("Query", 0, TRUE, s1.tx, 0, 0, <<>>))]
               s3 == Prepare(s2, "copy", 1, 0, f = "prepare")
           IN  IF s3.err # NoErr THEN s3
               ELSE [s3 EXCEPT !.stmt = s3.n, !.n = 0]

\* ------------------------------------------------------------- the machine
Postgres == cfg.DstDbDriver = "postgres"

\* The calls of the Insert interface, dispatched on the strategy copyTable chose.
IrAppend(row, scanOk, f) ==
  IF Postgres THEN CopyInAppend(row, scanOk, f) ELSE BulkAppend(row, scanOk, f)

IrFlush(f) == IF Postgres THEN CopyInFlush(f) ELSE BulkFlush(f)

IrClose(f) == IF Postgres THEN CopyInClose(f) ELSE BulkClose(f)

NewInserter(f) == IF Postgres THEN NewCopyIn(f) ELSE NewBulk(f)

Faults == {"none", "begin", "commit", "prepare", "exec", "stmtclose", "query"}

\* An injected failure is one the call really meets, within the budget.
FaultOk(f, s, extra) ==
  /\ f = "none" \/ f \in s.used
  /\ faults + Cardinality(s.used) + extra <= MaxFaults

SetDb(s) ==
  /\ txState' = s.txState
  /\ stmts' = s.stmts
  /\ dbLog' = s.dbLog

\* The receiver and the destination after a call, and the call's record:
\* what it returned, the cursor row it was handed and whether Scan read it,
\* whether the cursor had already failed, and r.totalRowCount on return.
Apply(op, s, extra, row, scanOk, cursorFailed) ==
  /\ tx' = s.tx
  /\ stmt' = s.stmt
  /\ buf' = s.buf
  /\ bufPos' = s.bufPos
  /\ rowPos' = s.rowPos
  /\ totalRowCount' = s.totalRowCount
  /\ values' = s.values
  /\ SetDb(s)
  /\ panicked' = s.panic
  /\ faults' = faults + Cardinality(s.used) + extra
  /\ calls' = Append(calls, [op |-> op, err |-> s.err, n |-> s.n,
                             row |-> row, scanOk |-> scanOk,
                             cursorFailed |-> cursorFailed,
                             total |-> s.totalRowCount])
  /\ UNCHANGED <<bufSz, valueTypes>>

Running == [err |-> "running", rowCount |-> 0]

\* The names of a schema or a table: text over a letter and the backtick.
Names == UNION {[1..k -> {97, Backtick}] : k \in 0..MaxNameLen}

\* The state before copyTable runs, for destination names of the given sets.
Start(schemas, tables) ==
  /\ \E d \in {"postgres", "mysql"}, b \in 1..MaxB, t \in 1..MaxT,
        sch \in schemas, tab \in tables :
       /\ d = "postgres" => b = 1 /\ t = 1
       /\ cfg = [DstDbDriver |-> d, MaxRowBufSz |-> b, MaxRowTxCommit |-> t,
                 DstSchema |-> sch, DstTable |-> tab]
  /\ colCount \in 1..MaxCols
  /\ \E n \in 0..MaxRows, off \in 0..1, toff \in 0..2 :
       /\ ~Postgres => off = 0 /\ toff = 0
       /\ cursorRows = IF Postgres THEN SampleRows(n, colCount, off)
                       ELSE DistinctRows(n, colCount)
       /\ catalog = IF Postgres
                    THEN {<<i, IF (i + toff) % 3 = 1 THEN "numeric" ELSE "text">> :
                            i \in {j \in 1..colCount : (j + toff) % 3 # 0}}
                    ELSE {}
  /\ cursorPos = 0
  /\ rowsErr = FALSE
  /\ pc = "copyTable"
  /\ result = Running
  /\ tx = 0
  /\ stmt = 0
  /\ buf = <<>>
  /\ bufSz = 0
  /\ bufPos = 0
  /\ rowPos = 0
  /\ totalRowCount = 0
  /\ values = <<>>
  /\ valueTypes = <<>>
  /\ txState = <<>>
  /\ stmts = <<>>
  /\ dbLog = <<>>
  /\ calls = <<>>
  /\ panicked = FALSE
  /\ faults = 0

\* A copy into the table "b" of the schema "a".
Init == Start({<<97>>}, {<<98>>})

\* copyTable up to the construction of the inserter: bulk.NewCopyIn for
\* "postgres", bulk.NewBulk otherwise; an error is returned at once.
CopyTableNew(f) ==
  /\ pc = "copyTable"
  /\ LET s == NewInserter(f)
     IN  /\ FaultOk(f, s, 0)
         /\ SetDb(s)
         /\ faults' = faults + Cardinality(s.used)
         /\ IF s.err # NoErr
            THEN /\ pc' = "returned"
                 /\ result' = [err |-> s.err, rowCount |-> 0]
                 /\ UNCHANGED insVars
            ELSE /\ pc' = "copyBulkRows"
                 /\ tx' = s.tx
                 /\ stmt' = s.stmt
                 /\ values' = s.values
                 /\ buf' = IF Postgres THEN buf ELSE s.buf
                 /\ bufSz' = IF Postgres THEN bufSz ELSE colCount * cfg.MaxRowBufSz
                 /\ valueTypes' = IF Postgres THEN FindColumnTypes(catalog)
                                  ELSE valueTypes
                 /\ UNCHANGED <<bufPos, rowPos, totalRowCount, result>>
  /\ UNCHANGED <<cfgVars, cursorVars, calls, panicked>>

\* copyBulkRows, one turn of the loop: rows.Next() is true, ir.Append(rows).
CopyBulkRowsAppend(scanOk, f) ==
  /\ pc = "copyBulkRows"
  /\ cursorPos < Len(cursorRows)
  /\ LET s == IrAppend(cursorRows[cursorPos + 1], scanOk, f)
     IN  /\ FaultOk(f, s, 0)
         /\ Apply("Append", s, 0, cursorPos + 1, scanOk, rowsErr)
         /\ pc' = IF s.panic THEN "panicked"
                  ELSE IF s.err # NoErr THEN "returned" ELSE pc
         /\ result' = IF ~s.panic /\ s.err # NoErr
                      THEN [err |-> s.err, rowCount |-> 0] ELSE result
  /\ cursorPos' = cursorPos + 1
  /\ UNCHANGED <<cfgVars, rowsErr>>

\* copyBulkRows after the loop: rows.Next() is false, at the end of the
\* cursor or on its error; ir.Flush(); return totalRowCount, rows.Err().
\* copyTable returns the error, if any, and goes on to ir.Close() otherwise.
CopyBulkRowsFlush(cursorFails, f) ==
  /\ pc = "copyBulkRows"
  /\ cursorFails \/ cursorPos = Len(cursorRows)
  /\ LET extra == IF cursorFails THEN 1 ELSE 0
         s == IrFlush(f)
     IN  /\ FaultOk(f, s, extra)
         /\ Apply("Flush", s, extra, 0, TRUE, cursorFails)
         /\ pc' = IF s.err # NoErr \/ cursorFails THEN "returned" ELSE "Close"
         /\ result' = IF s.err # NoErr THEN [err |-> s.err, rowCount |-> 0]
                      ELSE IF cursorFails THEN [err |-> "cursor", rowCount |-> 0]
                      ELSE [err |-> "running", rowCount |-> s.n]
  /\ rowsErr' = cursorFails
  /\ UNCHANGED <<cfgVars, cursorPos>>

\* copyTable: ir.Close(), then return rows.Err().
CopyTableClose(f) ==
  /\ pc = "Close"
  /\ LET s == IrClose(f)
     IN  /\ FaultOk(f, s, 0)
         /\ Apply("Close", s, 0, 0, TRUE, rowsErr)
         /\ pc' = "returned"
         /\ result' = [err |-> s.err, rowCount |-> result.rowCount]
  /\ UNCHANGED <<cfgVars, cursorVars>>

Next ==
  \/ \E f \in Faults : CopyTableNew(f)
  \/ \E ok \in BOOLEAN, f \in Faults : CopyBulkRowsAppend(ok, f)
  \/ \E cf \in BOOLEAN, f \in Faults : CopyBulkRowsFlush(cf, f)
  \/ \E f \in Faults : CopyTableClose(f)

Spec == Init /\ [][Next]_vars

\* ---------------------------------------- the inserter called in any order
CanCall == pc = "copyBulkRows" /\ ~panicked /\ Len(calls) < MaxCalls

AnyAppend(scanOk, f) ==
  /\ CanCall
  /\ cursorPos < Len(cursorRows)
  /\ LET s == IrAppend(cursorRows[cursorPos + 1], scanOk, f)
     IN  /\ FaultOk(f, s, 0)
         /\ Apply("Append", s, 0, cursorPos + 1, scanOk, rowsErr)
  /\ cursorPos' = cursorPos + 1
  /\ UNCHANGED <<cfgVars, rowsErr, pc, result>>

AnyFlush(f) ==
  /\ CanCall
  /\ LET s == IrFlush(f)
     IN  /\ FaultOk(f, s, 0)
         /\ Apply("Flush", s, 0, 0, TRUE, rowsErr)
  /\ UNCHANGED <<cfgVars, cursorVars, pc, result>>

AnyClose(f) ==
  /\ CanCall
  /\ LET s == IrClose(f)
     IN  /\ FaultOk(f, s, 0)
         /\ Apply("Close", s, 0, 0, TRUE, rowsErr)
  /\ UNCHANGED <<cfgVars, cursorVars, pc, result>>

NextAny ==
  \/ \E f \in Faults : CopyTableNew(f)
  \/ \E ok \in BOOLEAN, f \in Faults : AnyAppend(ok, f)
  \/ \E f \in Faults : AnyFlush(f)
  \/ \E f \in Faults : AnyClose(f)

\* Direct calls on the generic inserter, with a cursor that never runs short.
InitAny == Init /\ ~Postgres /\ Len(cursorRows) = MaxRows

SpecAny == InitAny /\ [][NextAny]_vars

\* A generic copy of one row into a table of any name: NewBulk prepares the
\* full-batch statement and Flush the remainder statement.
InitFq ==
  /\ Start(Names, Names)
  /\ ~Postgres
  /\ cfg.MaxRowBufSz = 2
  /\ cfg.MaxRowTxCommit = 1
  /\ colCount = 1
  /\ Len(cursorRows) = 1

SpecFq == InitFq /\ [][Next]_vars

\* ================================================================ properties
\* Readings of the two records that the properties share.
Idx(q) == 1..Len(q)

Count(q, P(_)) == Cardinality({i \in Idx(q) : P(q[i])})

IsAppend(c) == c.op = "Append"
IsFlush(c) == c.op = "Flush"
IsClose(c) == c.op = "Close"

\* Every call made so far returned nil.
AllOk == \A i \in Idx(calls) : calls[i].err = NoErr

Appended == Count(calls, IsAppend)
Flushed == \E i \in Idx(calls) : IsFlush(calls[i])

\* The executions of a statement of the given kind, in order.
ExecsOf(kind) ==
  SelectSeq(dbLog, LAMBDA e : e.op = "Exec" /\ stmts[e.stmt].kind = kind)

\* The calls so far are successful Appends followed by one successful Flush.
AppendsThenFlush ==
  /\ ~Postgres
  /\ calls # <<>>
  /\ AllOk
  /\ IsFlush(Last(calls))
  /\ \A i \in 1..(Len(calls) - 1) : IsAppend(calls[i])

\* C1: generic inserter: after R successful Appends and one Flush, the total
\* row count Flush returns is R, the number of rows passed to Append.
C1_FlushReturnsRowsAppended ==
  AppendsThenFlush => Last(calls).n = Appended

\* C2: generic inserter: a run of R successful Appends and a Flush executes
\* the full-batch statement floor(R/B) times, each time inside an Append and
\* with B rows, and after them the remainder statement once, inside Flush with
\* R mod B rows, when R mod B # 0, and never when R mod B = 0.
C2_BatchExecutions ==
  (~Postgres /\ AllOk) =>
    LET B == cfg.MaxRowBufSz
        full == ExecsOf("full")
        rem == ExecsOf("rem")
    IN  /\ Len(full) = Appended \div B
        /\ \A i \in Idx(full) :
             /\ full[i].ok
             /\ IsAppend(calls[full[i].call])
             /\ calls[full[i].call].row = i * B
             /\ full[i].groups = B
             /\ Len(full[i].args) = B * colCount
        /\ Len(rem) = IF Flushed /\ Appended % B # 0 THEN 1 ELSE 0
        /\ \A i \in Idx(rem) :
             /\ rem[i].ok
             /\ IsFlush(calls[rem[i].call])
             /\ rem[i].groups = Appended % B
             /\ Len(rem[i].args) = (Appended % B) * colCount
        /\ SelectSeq(dbLog, LAMBDA e : e.op = "Exec") = full \o rem

\* C2 witness: B + 1 rows copied with B >= 2: one full batch, one row at Flush.
C2_Witness ==
  /\ AppendsThenFlush
  /\ cfg.MaxRowBufSz >= 2
  /\ Appended = cfg.MaxRowBufSz + 1
  /\ Len(ExecsOf("full")) = 1
  /\ Len(ExecsOf("rem")) = 1

\* The commits attempted inside call i, as places of dbLog.
CommitsIn(i) == {k \in Idx(dbLog) : dbLog[k].op = "Commit" /\ dbLog[k].call = i}

RECURSIVE RowsSent(_, _)
\* The rows of the successful executions of the log q made in transaction t.
RowsSent(q, t) ==
  IF q = <<>> THEN 0
  ELSE RowsSent(SubSeq(q, 1, Len(q) - 1), t)
       + (IF Last(q).op = "Exec" /\ Last(q).ok /\ Last(q).tx = t
          THEN Last(q).groups ELSE 0)

\* The transactions committed by successful commits made before call i.
CommittedBefore(i) ==
  {dbLog[k].tx : k \in {j \in Idx(dbLog) :
      dbLog[j].op = "Commit" /\ dbLog[j].ok /\ dbLog[j].call < i}}

RECURSIVE SumRows(_)
SumRows(ts) ==
  IF ts = {} THEN 0
  ELSE LET t == CHOOSE x \in ts : TRUE
       IN  RowsSent(dbLog, t) + SumRows(ts \ {t})

\* C3: generic inserter, a run of successful Appends and a Flush: a commit is
\* made in an Append exactly when that Append brings the total row count to a
\* positive multiple of T; one more is made at Flush exactly when rows remain
\* uncommitted; with T = 1 every row is committed on its own.
C3_CommitAtMultiples ==
  (~Postgres /\ AllOk) =>
    LET T == cfg.MaxRowTxCommit
    IN  /\ \A i \in Idx(calls) :
             IsAppend(calls[i]) =>
               ((CommitsIn(i) # {}) <=> (calls[i].total % T = 0))
        /\ \A i \in Idx(calls) :
             IsFlush(calls[i]) =>
               ((CommitsIn(i) # {}) <=> (Appended > SumRows(CommittedBefore(i))))
        /\ T = 1 =>
             \A k \in Idx(dbLog) :
               (dbLog[k].op = "Commit" /\ dbLog[k].ok) =>
                  RowsSent(dbLog, dbLog[k].tx) = 1

\* C4: generic inserter, driven as Append*, Flush, Close: no commit is ever
\* attempted with no transaction held, nor on a transaction on which a commit
\* was attempted before.
C4_NoNilOrDoubleCommit ==
  ~Postgres =>
    \A k \in Idx(dbLog) :
      dbLog[k].op = "Commit" =>
        /\ dbLog[k].tx # 0
        /\ \A j \in 1..(k - 1) :
             ~(dbLog[j].op = "Commit" /\ dbLog[j].tx = dbLog[k].tx)

\* C4 witness: T = 1, a whole run that committed two transactions.
C4_Witness ==
  /\ ~Postgres
  /\ cfg.MaxRowTxCommit = 1
  /\ pc = "returned"
  /\ result.err = NoErr
  /\ Cardinality({k \in Idx(dbLog) : dbLog[k].op = "Commit" /\ dbLog[k].ok}) >= 2

\* C5: generic inserter, no row appended: Flush returns 0 and no error, no
\* transaction is begun, no statement executed, no commit attempted, and
\* Close returns no error.
C5_EmptyCursor ==
  (~Postgres /\ Appended = 0) =>
    /\ \A k \in Idx(dbLog) : dbLog[k].op \notin {"Begin", "Exec", "Commit"}
    /\ txState = <<>>
    /\ \A i \in Idx(calls) :
         /\ calls[i].err = NoErr
         /\ IsFlush(calls[i]) => calls[i].n = 0

\* C5 witness: an empty cursor copied to the end: Flush, then Close.
C5_Witness ==
  /\ ~Postgres
  /\ cursorRows = <<>>
  /\ pc = "returned"
  /\ result = [err |-> NoErr, rowCount |-> 0]
  /\ Len(calls) = 2
  /\ IsFlush(calls[1])
  /\ IsClose(calls[2])

\* C6: the orchestrator calls Append once per row in cursor order, then Flush
\* once, then Close once; once the cursor or a call has reported an error no
\* further Insert call is made, and that first error is what copyTable returns.
C6_SequenceAndFailFast ==
  /\ \A i \in Idx(calls) :
       /\ IsAppend(calls[i]) => calls[i].row = i
       /\ IsFlush(calls[i]) => \A j \in 1..(i - 1) : IsAppend(calls[j])
       /\ IsClose(calls[i]) => i > 1 /\ IsFlush(calls[i - 1])
  /\ (pc = "returned" /\ result.err = NoErr) =>
       /\ Appended = Len(cursorRows)
       /\ Count(calls, IsFlush) = 1
       /\ Count(calls, IsClose) = 1
  /\ \A i \in Idx(calls) :
       /\ calls[i].err # NoErr => i = Len(calls)
       /\ ~calls[i].cursorFailed
  /\ (pc = "returned" /\ rowsErr) => result.err = "cursor"

\* The values Scan read for the appended rows first..last, flattened.
RECURSIVE Flat(_, _)
Flat(first, last) ==
  IF first > last THEN <<>>
  ELSE Flat(first, last - 1) \o cursorRows[last]

\* C7: generic inserter: when the full-batch execution fails inside Append,
\* Append returns the error, the buffer still holds the batch (bufPos and
\* rowPos are not reset, no value is dropped) and the transaction stays open
\* and held, with no commit made after the failure.
C7_ExecFailureKeepsBatch ==
  (~Postgres /\ calls # <<>> /\ IsAppend(Last(calls)) /\ Last(dbLog).op = "Exec"
     /\ ~Last(dbLog).ok /\ Last(dbLog).call = Len(calls)) =>
    LET B == cfg.MaxRowBufSz
        n == Len(calls)
    IN  /\ Last(calls).err = "exec"
        /\ bufPos = bufSz
        /\ rowPos = B
        /\ buf = Last(dbLog).args
        /\ (\A i \in (n - B + 1)..n : calls[i].scanOk) =>
              buf = Flat(calls[n].row - B + 1, calls[n].row)
        /\ tx # 0
        /\ txState[tx] = "open"
        /\ Last(dbLog).tx = tx

\* C7 witness: a batch of two rows or more whose execution failed.
C7_Witness ==
  /\ ~Postgres
  /\ cfg.MaxRowBufSz >= 2
  /\ calls # <<>>
  /\ IsAppend(Last(calls))
  /\ Last(calls).err = "exec"
  /\ \A i \in Idx(calls) : calls[i].scanOk

\* A byte value of the row handed to call i that its numeric column cannot parse.
ParseFails(i) ==
  /\ Postgres
  /\ calls[i].scanOk
  /\ \E j \in 1..colCount :
       /\ cursorRows[calls[i].row][j].t = "[]byte"
       /\ valueTypes[j] = "numeric"
       /\ ~ParseFloat(cursorRows[calls[i].row][j].s).ok

\* C8: an Append whose Scan fails, or (native copy) whose byte value does not
\* parse as its numeric column type, returns an error, and the row is neither
\* counted, buffered nor sent.
C8_ScanErrorReturned ==
  \A i \in Idx(calls) :
    (IsAppend(calls[i]) /\ (~calls[i].scanOk \/ ParseFails(i))) =>
      /\ calls[i].err # NoErr
      /\ calls[i].total = (IF i = 1 THEN 0 ELSE calls[i - 1].total)
      /\ \A k \in Idx(dbLog) : ~(dbLog[k].op = "Exec" /\ dbLog[k].call = i)

\* A step that is a call of Close on the generic inserter.
CloseStep ==
  /\ ~Postgres
  /\ Len(calls') = Len(calls) + 1
  /\ IsClose(calls'[Len(calls')])

\* C9: generic inserter: Close, in whatever state it is called, only releases
\* the full-batch statement: buffer, bufPos, rowPos, total row count and
\* transaction are unchanged, nothing is executed or committed, and no error
\* is returned.
C9_CloseOnlyReleasesStatement ==
  [][CloseStep =>
       /\ UNCHANGED <<buf, bufSz, bufPos, rowPos, totalRowCount, values, tx, txState, stmt>>
       /\ calls'[Len(calls')].err = NoErr
       /\ stmts' = [stmts EXCEPT ![stmt].open = FALSE]
       /\ Len(dbLog') >= Len(dbLog)
       /\ SubSeq(dbLog', 1, Len(dbLog)) = dbLog
       /\ \A k \in (Len(dbLog) + 1)..Len(dbLog') :
            dbLog'[k].op = "StmtClose" /\ dbLog'[k].stmt = stmt
    ]_vars

\* C9 witness: Close was called with rows still buffered and a transaction open.
C9_Witness ==
  /\ ~Postgres
  /\ calls # <<>>
  /\ IsClose(Last(calls))
  /\ bufPos > 0
  /\ tx # 0
  /\ txState[tx] = "open"

\* C10: native copy inserter: the only transaction is begun at construction;
\* a commit is attempted only in Close, right after the copy statement was
\* closed, and at most once; a run that succeeds has committed it exactly
\* once; and every successful Append has sent its own row, coerced, to the
\* copy statement within that call.
C10_CopyInLifecycle ==
  Postgres =>
    /\ \A k \in Idx(dbLog) :
         dbLog[k].op = "Begin" => k = 1 /\ dbLog[k].call = 0
    /\ \A k \in Idx(dbLog) :
         dbLog[k].op = "Commit" =>
           /\ IsClose(calls[dbLog[k].call])
           /\ dbLog[k].tx = 1
           /\ dbLog[k - 1].op = "StmtClose"
           /\ dbLog[k - 1].ok
           /\ dbLog[k - 1].stmt = stmt
           /\ dbLog[k - 1].call = dbLog[k].call
           /\ \A j \in 1..(k - 1) : dbLog[j].op # "Commit"
    /\ (pc = "returned" /\ result.err = NoErr) =>
         /\ txState = <<"committed">>
         /\ Cardinality({k \in Idx(dbLog) : dbLog[k].op = "Commit" /\ dbLog[k].ok}) = 1
    /\ \A i \in Idx(calls) :
         (IsAppend(calls[i]) /\ calls[i].err = NoErr) =>
           \E k \in Idx(dbLog) :
             /\ dbLog[k].op = "Exec" /\ dbLog[k].ok /\ dbLog[k].call = i
             /\ dbLog[k].tx = 1
             /\ Len(dbLog[k].args) = colCount
             /\ calls[i].scanOk =>
                  dbLog[k].args = [j \in 1..colCount |->
                     Coerce(cursorRows[calls[i].row][j], valueTypes[j])]
             /\ \A m \in Idx(dbLog) :
                  (dbLog[m].op = "Exec" /\ dbLog[m].call = i) => m = k

\* C10 witness: a native copy of two rows or more that returned no error.
C10_Witness ==
  /\ Postgres
  /\ pc = "returned"
  /\ result.err = NoErr
  /\ Len(cursorRows) >= 2
  /\ Appended = Len(cursorRows)

\* The quoting the statement builder is to apply to one name.
QuotedOnce(x) == IF Quoted(x) THEN x ELSE Wrap(x)

\* C11: FqSchemaTable: a name that starts and ends with the quote character
\* is emitted unchanged, any other name is wrapped in one quote pair; with an
\* empty schema the result is the quoted table alone, otherwise
\* quoted-schema "." quoted-table; quoting quoted names changes nothing.
C11_QuotingIdempotent ==
  \A k \in Idx(stmts) :
    stmts[k].kind # "copy" =>
      LET sch == cfg.DstSchema
          tab == cfg.DstTable
          out == stmts[k].sql.table
      IN  /\ out = IF sch = <<>> THEN QuotedOnce(tab)
                   ELSE QuotedOnce(sch) \o <<Point>> \o QuotedOnce(tab)
          /\ QuotedOnce(QuotedOnce(sch)) = QuotedOnce(sch)
          /\ QuotedOnce(QuotedOnce(tab)) = QuotedOnce(tab)
          /\ FqSchemaTable(IF sch = <<>> THEN sch ELSE QuotedOnce(sch),
                           QuotedOnce(tab)) = out
          /\ FqSchemaTable(<<>>, out) = out

\* C11 witness: a statement built for a quoted schema and an unquoted table.
C11_Witness ==
  /\ cfg.DstSchema = <<Backtick, 97, Backtick>>
  /\ cfg.DstTable = <<97>>
  /\ Len(stmts) = 2
  /\ stmts[2].sql.table = <<Backtick, 97, Backtick, Point, Backtick, 97, Backtick>>

\* The value the copy statement is to receive for the cursor value v of a
\* column of the given type; no value when numeric bytes do not parse.
Coerced(v, type, a) ==
  IF v = Nil THEN a = Nil
  ELSE IF v.t # "[]byte" THEN a = v
  ELSE IF type = "numeric"
       THEN ParseFloat(v.s).ok /\ a = ParseFloat(v.s).v /\ a.t = "float64"
       ELSE a = String(v.s)

\* C12: native copy inserter: every value Append hands to the copy statement
\* is the cursor's value coerced: NULL as it is, bytes of a numeric column as
\* the number parsed from them, bytes of any other column (also one whose
\* type was not resolved) as their text, anything else unchanged.
C12_Coercion ==
  Postgres =>
    \A k \in Idx(dbLog) :
      (dbLog[k].op = "Exec" /\ dbLog[k].args # <<>>
         /\ calls[dbLog[k].call].scanOk) =>
        \A j \in 1..colCount :
          Coerced(cursorRows[calls[dbLog[k].call].row][j], valueTypes[j],
                  dbLog[k].args[j])

\* NewBulk has returned an inserter.
Constructed == ~Postgres /\ pc # "copyTable" /\ stmt # 0

\* C13: generic inserter: between operations, after construction and after
\* any Append, Flush or Close, also one that returned an error,
\* 0 <= bufPos <= B*C and bufPos = rowPos*C, and no Append writes at an index
\* of the buffer >= B*C: the buffer keeps its B*C places, and an Append finds
\* no room (and panics, writing nothing) only when an earlier Append had
\* returned an error.
C13_BufferInvariant ==
  Constructed =>
    /\ bufSz = cfg.MaxRowBufSz * colCount
    /\ Len(buf) = bufSz
    /\ 0 <= bufPos
    /\ bufPos <= bufSz
    /\ bufPos = rowPos * colCount
    /\ panicked =>
         /\ IsAppend(Last(calls))
         /\ \E i \in 1..(Len(calls) - 1) :
              IsAppend(calls[i]) /\ calls[i].err # NoErr

\* C13 witness: a Flush whose remainder execution failed, rows still buffered.
C13_Witness ==
  /\ Constructed
  /\ calls # <<>>
  /\ IsFlush(Last(calls))
  /\ Last(calls).err = "exec"
  /\ bufPos > 0
  /\ bufPos < bufSz

\* C14: generic inserter: every statement execution, the full-batch one in
\* Append and the remainder one in Flush, is made while a transaction is open
\* on the connection.
C14_ExecInsideTx ==
  ~Postgres =>
    \A k \in Idx(dbLog) : dbLog[k].op = "Exec" => dbLog[k].tx # 0

\* C15: generic inserter: when Flush has returned nil, every transaction begun
\* is committed and the inserter holds no transaction; a Flush called next, on
\* the empty buffer, touches the database not at all and returns nil and the
\* same total.
C15_FlushLeavesNoTx ==
  ~Postgres =>
    \A i \in Idx(calls) :
      (IsFlush(calls[i]) /\ calls[i].err = NoErr) =>
        /\ i = Len(calls) =>
             /\ tx = 0
             /\ \A t \in Idx(txState) : txState[t] = "committed"
        /\ (i < Len(calls) /\ IsFlush(calls[i + 1])) =>
             /\ \A k \in Idx(dbLog) : dbLog[k].call # i + 1
             /\ calls[i + 1].err = NoErr
             /\ calls[i + 1].n = calls[i].n

\* The failed executions and commits, as places of dbLog.
Failures ==
  {k \in Idx(dbLog) : dbLog[k].op \in {"Exec", "Commit"} /\ ~dbLog[k].ok}

\* Transaction t has been committed by an event before place k.
CommittedAt(t, k) ==
  \E j \in 1..(k - 1) :
    dbLog[j].op = "Commit" /\ dbLog[j].ok /\ dbLog[j].tx = t

RECURSIVE Uncommitted(_, _)
\* The rows sent by the first n events, inside a transaction that no event
\* before place k has committed.
Uncommitted(n, k) ==
  IF n = 0 THEN 0
  ELSE Uncommitted(n - 1, k)
       + (IF /\ dbLog[n].op = "Exec"
             /\ dbLog[n].ok
             /\ dbLog[n].tx # 0
             /\ ~CommittedAt(dbLog[n].tx, k)
          THEN dbLog[n].groups ELSE 0)

\* The most rows one transaction receives: it begins with the batch that
\* ends at row m*B, and is committed by the Append of the next multiple of T
\* or by Flush, before row m*B + T is sent: T + B - 1 rows.
TxRowBound == cfg.MaxRowTxCommit + cfg.MaxRowBufSz - 1

\* C16 as stated: generic inserter: when an execution or a commit fails, the
\* rows sent and not yet committed are at most one batch, B rows.
C16_AtMostOneBatchLost ==
  ~Postgres =>
    \A k \in Failures : Uncommitted(k - 1, k) <= cfg.MaxRowBufSz

\* C16: generic inserter: when an execution or a commit fails, the rows sent
\* and not yet committed are those of one transaction, at most T + B - 1
\* rows: several batches when T > B.
C16_AtMostOneTxLost ==
  ~Postgres =>
    \A k \in Failures : Uncommitted(k - 1, k) <= TxRowBound

\* C16 witness: a commit fails with more than one batch in its transaction.
C16_Witness ==
  /\ ~Postgres
  /\ \E k \in Failures :
       /\ dbLog[k].op = "Commit"
       /\ Uncommitted(k - 1, k) > cfg.MaxRowBufSz
       /\ Uncommitted(k - 1, k) = TxRowBound

\* C17: generic inserter: the rows executed inside one transaction, between
\* its begin and its commit, never exceed the commit threshold maxRowTxCommit.
C17_TxWithinThreshold ==
  ~Postgres =>
    \A t \in Idx(txState) : RowsSent(dbLog, t) <= cfg.MaxRowTxCommit

\* C18: generic inserter: every execution uses a statement with one
\* placeholder group per row being flushed, columnCount placeholders in each,
\* and binds rows * columnCount values: the statement prepared at
\* construction is executed with the B rows, B * columnCount values, of the
\* full buffer; the statement Flush prepares has rowPos groups, is executed
\* with the bufPos = rowPos * columnCount buffered values, and is closed
\* before Flush returns.
C18_PlaceholdersMatchRows ==
  [][~Postgres =>
       \A k \in (Len(dbLog) + 1)..Len(dbLog') :
         dbLog'[k].op = "Exec" =>
           LET e == dbLog'[k]
               st == stmts'[e.stmt]
               groups == st.sql.groups
           IN  /\ \A g \in Idx(groups) : groups[g] = colCount
               /\ Len(e.args) = Placeholders(groups)
               /\ Len(e.args) = Len(groups) * colCount
               /\ e.groups = Len(groups)
               /\ st.kind = "full" =>
                    /\ e.stmt = stmt
                    /\ IsAppend(calls'[e.call])
                    /\ Len(groups) = cfg.MaxRowBufSz
                    /\ rowPos + 1 = cfg.MaxRowBufSz
                    /\ Len(e.args) = cfg.MaxRowBufSz * colCount
               /\ st.kind = "rem" =>
                    /\ e.stmt # stmt
                    /\ IsFlush(calls'[e.call])
                    /\ Len(groups) = rowPos
                    /\ rowPos > 0
                    /\ Len(e.args) = bufPos
                    /\ bufPos = rowPos * colCount
                    /\ ~st.open
    ]_vars

\* C18 witness: with two columns and B = 3, a full batch was executed and
\* then a remainder of one row.
C18_Witness ==
  /\ ~Postgres
  /\ colCount = 2
  /\ cfg.MaxRowBufSz = 3
  /\ \E k \in Idx(dbLog) :
       /\ dbLog[k].op = "Exec" /\ dbLog[k].ok
       /\ stmts[dbLog[k].stmt].kind = "full"
       /\ Len(dbLog[k].args) = 6
  /\ \E k \in Idx(dbLog) :
       /\ dbLog[k].op = "Exec" /\ dbLog[k].ok
       /\ stmts[dbLog[k].stmt].kind = "rem"
       /\ Len(stmts[dbLog[k].stmt].sql.groups) = 1
       /\ Len(dbLog[k].args) = 2
       /\ ~stmts[dbLog[k].stmt].open

RECURSIVE ArgsSent(_)
\* The argument lists of the executions of the log q, concatenated in order.
ArgsSent(q) ==
  IF q = <<>> THEN <<>>
  ELSE ArgsSent(SubSeq(q, 1, Len(q) - 1))
       \o (IF Last(q).op = "Exec" THEN Last(q).args ELSE <<>>)

\* C19: generic inserter: after R successful Appends and a successful Flush
\* the arguments of all executions, in order, are the cursor's rows in cursor
\* order, each once; the buffer is empty; no row sent is in a transaction
\* left uncommitted.
C19_Delivery ==
  AppendsThenFlush =>
    /\ ArgsSent(dbLog) = Flat(1, Appended)
    /\ \A k \in Idx(dbLog) : dbLog[k].op = "Exec" => dbLog[k].ok
    /\ bufPos = 0
    /\ rowPos = 0
    /\ \A t \in Idx(txState) : txState[t] = "committed"

\* C20: generic inserter: over any sequence of Append, Flush and Close the
\* total row count never decreases: an Append that returns nil adds one to
\* it; an Append that returns an error, a Flush and a Close leave it as it is.
C20_TotalCountsAppends ==
  [][(~Postgres /\ Len(calls') = Len(calls) + 1) =>
       IF IsAppend(Last(calls')) /\ Last(calls').err = NoErr
       THEN totalRowCount' = totalRowCount + 1
       ELSE totalRowCount' = totalRowCount
    ]_vars

====
